---- MODULE Spec2Model ----
(***************************************************************************)
(* Model of git_sync_runner.py: a launcher that resolves the path of       *)
(* auto_git_sync.sh next to itself, appends two lines to sync_log.txt,     *)
(* runs the script through /bin/bash with both streams piped, waits for    *)
(* it, and appends a record to sync_error.log before leaving with          *)
(* sys.exit(1).                                                            *)
(*                                                                         *)
(* Two specifications are given.  Spec is the launcher in the environment  *)
(* the specification describes: path resolution succeeds and both log      *)
(* files can be opened for appending.  SpecEnv adds the environment        *)
(* failures that the code does not guard against: line 17 raising, and     *)
(* open() of either log file raising OSError.  Signals delivered to the    *)
(* launcher itself are outside both.                                       *)
(***************************************************************************)
EXTENDS Integers, Sequences, FiniteSets, TLC

\* ---------------------------------------------------------------- bounds
MaxErrLen == 2          \* longest captured stderr, in bytes
MaxExitCode == 3        \* child exit codes 0..MaxExitCode (plus 127, 255)

\* ------------------------------------------------------- program constants
SysExitCode == 1        \* argument of both sys.exit calls
UncaughtStatus == 1     \* status of an interpreter ended by a traceback
BashNotFound == 127     \* status of /bin/bash when its script operand is missing
NoStatus == -1          \* the launcher has not ended yet

ScriptName == "auto_git_sync.sh"
LogName == "sync_log.txt"
ErrorLogName == "sync_error.log"
RunnerName == "git_sync_runner.py"
Announcement == "Starting RebasedCode Git Sync Runner"
ScriptPathLabel == "Script path: "

Dirs == {"/srv/repo", "/home/u/repo"}

\* bytes a child may put on its stderr: 'b', '\n', 0xC3 0xA9 (UTF-8 for e-acute)
\* and 0xFF, which no UTF-8 text contains
Bytes == {98, 10, 195, 169, 255}
SeqsUpTo(S, n) == UNION {[1..k -> S] : k \in 0..n}
ErrTexts == SeqsUpTo(Bytes, MaxErrLen)

\* "/bin/bash: <path>: No such file or directory\n", abbreviated to "b\n"
BashNoSuchFile == <<98, 10>>

Signals == {9, 15}
ExitCodes == (0..MaxExitCode) \cup {BashNotFound, 255}
ChildTerminations ==
    {[how |-> "exit", n |-> c] : c \in ExitCodes} \cup
    {[how |-> "signal", n |-> s] : s \in Signals}

\* ------------------------------------------------------------ conversions
\* os.path.abspath(__file__): a relative name is resolved against the cwd
Abspath(f, wd) == IF f.dir = "" THEN [dir |-> wd, base |-> f.base] ELSE f

\* os.path.dirname
Dirname(p) == p.dir

\* os.path.join(dir, name)
Join(d, name) == [dir |-> d, base |-> name]

\* Popen.returncode: the exit code, or minus the signal number
Returncode(t) == IF t.how = "exit" THEN t.n ELSE 0 - t.n

\* str(int) as the f-string formats it: '-' is 45, digits are 48..57
RECURSIVE NatToStr(_)
NatToStr(n) == IF n < 10 THEN <<48 + n>> ELSE NatToStr(n \div 10) \o <<48 + (n % 10)>>
IntToStr(i) == IF i < 0 THEN <<45>> \o NatToStr(0 - i) ELSE NatToStr(i)

\* reading the decimal text back
RECURSIVE ParseNat(_)
ParseNat(s) == IF s = <<>> THEN 0 ELSE 10 * ParseNat(SubSeq(s, 1, Len(s) - 1)) + (s[Len(s)] - 48)
ParseInt(s) == IF s # <<>> /\ s[1] = 45 THEN 0 - ParseNat(Tail(s)) ELSE ParseNat(s)

\* bytes.decode(): strict UTF-8, over one- and two-byte sequences
RECURSIVE Decode(_)
Decode(bs) ==
    IF bs = <<>> THEN [ok |-> TRUE, cps |-> <<>>]
    ELSE LET b == Head(bs) IN
         IF b < 128
         THEN LET r == Decode(Tail(bs)) IN [ok |-> r.ok, cps |-> <<b>> \o r.cps]
         ELSE IF b \in 194..223 /\ Len(bs) >= 2 /\ bs[2] \in 128..191
         THEN LET r == Decode(SubSeq(bs, 3, Len(bs))) IN
              [ok |-> r.ok, cps |-> <<(b - 192) * 64 + (bs[2] - 128)>> \o r.cps]
         ELSE [ok |-> FALSE, cps |-> <<>>]

\* the text-mode file's encoder (UTF-8) for the same code points
RECURSIVE Encode(_)
Encode(cps) ==
    IF cps = <<>> THEN <<>>
    ELSE LET c == Head(cps) IN
         (IF c < 128 THEN <<c>> ELSE <<192 + (c \div 64), 128 + (c % 64)>>) \o Encode(Tail(cps))

\* ------------------------------------------------------------ log entries
StartLine(m, p) == [msg |-> m, path |-> p]
NoPath == [dir |-> "", base |-> ""]
OldStartLine == StartLine("earlier run", NoPath)

Chunk(k, b, d) == [kind |-> k, body |-> b, desc |-> d]
TerminatedChunk == Chunk("Git sync process terminated unexpectedly", <<>>, "")
ReturnCodeChunk(rc) == Chunk("Return code: ", IntToStr(rc), "")
ErrorOutputChunk(cps) == Chunk("Error output: ", Encode(cps), "")
ExceptionChunk(e) == Chunk("Exception running git sync script: ", <<>>, e)

OldErrorLog == <<TerminatedChunk, ReturnCodeChunk(1)>>

VARIABLES
    pc,             \* position of the launcher in the script
    launcherDir,    \* directory the launcher file is installed in
    file,           \* __file__, absolute or relative to the cwd
    cwd,            \* working directory
    scriptExists,   \* whether auto_git_sync.sh is present next to the launcher
    unbuffered,     \* os.environ['PYTHONUNBUFFERED'] is set
    SCRIPT_PATH,
    relabelStatus,  \* what os.system returned (the code discards it)
    startupLog,     \* sync_log.txt, a sequence of lines
    errorLog,       \* sync_error.log, a sequence of written chunks
    startupLog0,    \* sync_log.txt as the run found it
    errorLog0,      \* sync_error.log as the run found it
    stdout,         \* number of lines printed
    spawnAttempts,  \* calls of subprocess.Popen
    child,          \* "none", "running", or how the child terminated
    returncode,     \* process.returncode
    err,            \* captured stderr
    exc,            \* exception in flight
    excArg,         \* argument of a SystemExit in flight
    inTry,          \* control is inside the try body
    errLogFailed,   \* an open() of the error log raised
    exitStatus      \* exit status of the launcher

vars == <<pc, launcherDir, file, cwd, scriptExists, unbuffered, SCRIPT_PATH, relabelStatus,
          startupLog, errorLog, startupLog0, errorLog0, stdout, spawnAttempts,
          child, returncode, err, exc, inTry, errLogFailed, excArg, exitStatus>>

env == <<launcherDir, file, cwd, scriptExists, startupLog0, errorLog0>>

NoChild == [how |-> "none", n |-> 0]
Running == [how |-> "running", n |-> 0]

Init ==
    /\ pc = "start"
    /\ launcherDir \in Dirs
    /\ cwd \in Dirs
    /\ file \in {[dir |-> launcherDir, base |-> RunnerName]} \cup
                (IF cwd = launcherDir THEN {[dir |-> "", base |-> RunnerName]} ELSE {})
    /\ scriptExists \in BOOLEAN
    /\ unbuffered = FALSE
    /\ SCRIPT_PATH = NoPath
    /\ relabelStatus = 0
    /\ startupLog0 \in {<<>>, <<OldStartLine>>}
    /\ errorLog0 \in {<<>>, OldErrorLog}
    /\ startupLog = startupLog0
    /\ errorLog = errorLog0
    /\ stdout = 0
    /\ spawnAttempts = 0
    /\ child = NoChild
    /\ returncode = 0
    /\ err = <<>>
    /\ exc = "none"
    /\ excArg = 0
    /\ inTry = FALSE
    /\ errLogFailed = FALSE
    /\ exitStatus = NoStatus

\* a handler that matches nothing
CatchesNothing(cls) == FALSE

\* `except Exception`: every class but SystemExit (BaseException)
Catches(cls) == cls # "SystemExit"

\* a path resolved against the working directory instead of the launcher's own
ComputePathCwd ==
    /\ pc = "start"
    /\ unbuffered' = TRUE
    /\ SCRIPT_PATH' = Join(cwd, ScriptName)
    /\ pc' = "relabel"
    /\ UNCHANGED <<env, relabelStatus, startupLog, errorLog, stdout, spawnAttempts,
                   child, returncode, err, exc, inTry, errLogFailed, excArg, exitStatus>>

\* lines 14-17
ComputePath ==
    /\ pc = "start"
    /\ unbuffered' = TRUE
    /\ SCRIPT_PATH' = Join(Dirname(Abspath(file, cwd)), ScriptName)
    /\ pc' = "relabel"
    /\ UNCHANGED <<env, relabelStatus, startupLog, errorLog, stdout, spawnAttempts,
                   child, returncode, err, exc, inTry, errLogFailed, excArg, exitStatus>>

\* line 17 raising (no __file__, or abspath's getcwd failing): outside the try
ComputePathRaises ==
    /\ pc = "start"
    /\ unbuffered' = TRUE
    /\ \E e \in {"NameError", "OSError"} : exc' = e
    /\ pc' = "raised"
    /\ UNCHANGED <<env, SCRIPT_PATH, relabelStatus, startupLog, errorLog, stdout,
                   spawnAttempts, child, returncode, err, inTry, errLogFailed, excArg, exitStatus>>

\* a relabeling step that raises on a failure status
RelabelChecked ==
    /\ pc = "relabel"
    /\ \E s \in {0, 1} :
         /\ relabelStatus' = s
         /\ IF s = 0 THEN pc' = "startlog" /\ exc' = exc
                     ELSE pc' = "raised" /\ exc' = "OSError"
    /\ UNCHANGED <<env, unbuffered, SCRIPT_PATH, startupLog, errorLog, stdout,
                   spawnAttempts, child, returncode, err, inTry, errLogFailed, excArg, exitStatus>>

\* a relabeling step that goes straight on to the spawn
RelabelSkipLog ==
    /\ pc = "relabel"
    /\ \E s \in {0, 1} : relabelStatus' = s
    /\ pc' = "spawn"
    /\ UNCHANGED <<env, unbuffered, SCRIPT_PATH, startupLog, errorLog, stdout,
                   spawnAttempts, child, returncode, err, exc, inTry, errLogFailed, excArg, exitStatus>>

\* line 20: os.system returns a status and never raises; the status is dropped
Relabel ==
    /\ pc = "relabel"
    /\ \E s \in {0, 1} : relabelStatus' = s
    /\ pc' = "startlog"
    /\ UNCHANGED <<env, unbuffered, SCRIPT_PATH, startupLog, errorLog, stdout,
                   spawnAttempts, child, returncode, err, exc, inTry, errLogFailed, excArg, exitStatus>>

\* a startup write that truncates the file (mode 'w')
LogStartupTruncate ==
    /\ pc = "startlog"
    /\ startupLog' = <<StartLine(Announcement, NoPath), StartLine(ScriptPathLabel, SCRIPT_PATH)>>
    /\ stdout' = stdout + 3
    /\ pc' = "spawn"
    /\ UNCHANGED <<env, unbuffered, SCRIPT_PATH, relabelStatus, errorLog, spawnAttempts,
                   child, returncode, err, exc, inTry, errLogFailed, excArg, exitStatus>>

\* lines 23-34: append the two startup lines, print three lines
LogStartup ==
    /\ pc = "startlog"
    /\ startupLog' = startupLog \o
           <<StartLine(Announcement, NoPath), StartLine(ScriptPathLabel, SCRIPT_PATH)>>
    /\ stdout' = stdout + 3
    /\ pc' = "spawn"
    /\ UNCHANGED <<env, unbuffered, SCRIPT_PATH, relabelStatus, errorLog, spawnAttempts,
                   child, returncode, err, exc, inTry, errLogFailed, excArg, exitStatus>>

\* line 28: open(LOG_FILE, 'a') raising, outside the try
LogStartupFails ==
    /\ pc = "startlog"
    /\ exc' = "OSError"
    /\ pc' = "raised"
    /\ UNCHANGED <<env, unbuffered, SCRIPT_PATH, relabelStatus, startupLog, errorLog, stdout,
                   spawnAttempts, child, returncode, err, inTry, errLogFailed, excArg, exitStatus>>

\* a spawn that executes the script file itself: a missing file raises
SpawnDirect ==
    /\ pc = "spawn"
    /\ spawnAttempts' = spawnAttempts + 1
    /\ inTry' = TRUE
    /\ IF scriptExists
       THEN child' = Running /\ pc' = "wait" /\ exc' = exc
       ELSE child' = child /\ pc' = "raised" /\ exc' = "FileNotFoundError"
    /\ UNCHANGED <<env, unbuffered, SCRIPT_PATH, relabelStatus, startupLog, errorLog, stdout,
                   returncode, err, errLogFailed, excArg, exitStatus>>

\* lines 37-40: Popen(['/bin/bash', SCRIPT_PATH]) starts bash, script present or not
Spawn ==
    /\ pc = "spawn"
    /\ spawnAttempts' = spawnAttempts + 1
    /\ inTry' = TRUE
    /\ child' = Running
    /\ pc' = "wait"
    /\ UNCHANGED <<env, unbuffered, SCRIPT_PATH, relabelStatus, startupLog, errorLog, stdout,
                   returncode, err, exc, errLogFailed, excArg, exitStatus>>

\* lines 37-40: Popen raising OSError (fork or exec of /bin/bash failing)
SpawnRaises ==
    /\ pc = "spawn"
    /\ spawnAttempts' = spawnAttempts + 1
    /\ inTry' = TRUE
    /\ exc' = "OSError"
    /\ pc' = "raised"
    /\ UNCHANGED <<env, unbuffered, SCRIPT_PATH, relabelStatus, startupLog, errorLog, stdout,
                   child, returncode, err, errLogFailed, excArg, exitStatus>>

\* the child ends; bash given a missing script ends with 127 and a message
ChildExit ==
    /\ pc = "wait"
    /\ child = Running
    /\ IF scriptExists
       THEN \E t \in ChildTerminations, e \in ErrTexts : child' = t /\ err' = e
       ELSE child' = [how |-> "exit", n |-> BashNotFound] /\ err' = BashNoSuchFile
    /\ UNCHANGED <<pc, env, unbuffered, SCRIPT_PATH, relabelStatus, startupLog, errorLog, stdout,
                   spawnAttempts, returncode, exc, inTry, errLogFailed, excArg, exitStatus>>

\* line 43: communicate() returns once the child has ended
Communicate ==
    /\ pc = "wait"
    /\ child.how \in {"exit", "signal"}
    /\ returncode' = Returncode(child)
    /\ pc' = "termlog"
    /\ UNCHANGED <<env, unbuffered, SCRIPT_PATH, relabelStatus, startupLog, errorLog, stdout,
                   spawnAttempts, child, err, exc, inTry, errLogFailed, excArg, exitStatus>>

\* lines 46-52 with the written return code and the sys.exit argument as parameters
TermLog(rc, arg) ==
    /\ pc = "termlog"
    /\ err = <<>> \/ Decode(err).ok
    /\ errorLog' = errorLog \o <<TerminatedChunk, ReturnCodeChunk(rc)>> \o
                   (IF err # <<>> THEN <<ErrorOutputChunk(Decode(err).cps)>> ELSE <<>>)
    /\ exc' = "SystemExit"
    /\ excArg' = arg
    /\ pc' = "raised"
    /\ UNCHANGED <<env, unbuffered, SCRIPT_PATH, relabelStatus, startupLog, stdout,
                   spawnAttempts, child, returncode, err, inTry, errLogFailed, exitStatus>>

\* a termination write that logs the launcher's own status as the return code
LogTerminationOwnStatus == TermLog(SysExitCode, SysExitCode)

\* a termination write followed by sys.exit(0)
LogTerminationExitZero == TermLog(returncode, 0)

\* lines 46-52: the Termination Record, then sys.exit(1)
LogTermination == TermLog(returncode, SysExitCode)

\* lines 46-50 when err.decode() raises: the two lines already written are
\* flushed as the with-block closes the file, and UnicodeDecodeError propagates
LogTerminationDecodeError ==
    /\ pc = "termlog"
    /\ err # <<>> /\ ~Decode(err).ok
    /\ errorLog' = errorLog \o <<TerminatedChunk, ReturnCodeChunk(returncode)>>
    /\ exc' = "UnicodeDecodeError"
    /\ pc' = "raised"
    /\ UNCHANGED <<env, unbuffered, SCRIPT_PATH, relabelStatus, startupLog, stdout,
                   spawnAttempts, child, returncode, err, inTry, errLogFailed, excArg, exitStatus>>

\* line 46: open(ERROR_LOG, 'a') raising inside the try body
LogTerminationOpenFails ==
    /\ pc = "termlog"
    /\ errLogFailed' = TRUE
    /\ exc' = "OSError"
    /\ pc' = "raised"
    /\ UNCHANGED <<env, unbuffered, SCRIPT_PATH, relabelStatus, startupLog, errorLog, stdout,
                   spawnAttempts, child, returncode, err, inTry, excArg, exitStatus>>

\* line 54: an exception raised in the try body that the except clause matches
Caught ==
    /\ pc = "raised"
    /\ inTry /\ Catches(exc)
    /\ inTry' = FALSE
    /\ pc' = "except"
    /\ UNCHANGED <<env, unbuffered, SCRIPT_PATH, relabelStatus, startupLog, errorLog, stdout,
                   spawnAttempts, child, returncode, err, exc, errLogFailed, excArg, exitStatus>>

\* an exception nothing catches ends the interpreter: SystemExit with its
\* argument as the status, anything else with a traceback and status 1
Uncaught ==
    /\ pc = "raised"
    /\ ~(inTry /\ Catches(exc))
    /\ inTry' = FALSE
    /\ exitStatus' = IF exc = "SystemExit" THEN excArg ELSE UncaughtStatus
    /\ pc' = "exited"
    /\ UNCHANGED <<env, unbuffered, SCRIPT_PATH, relabelStatus, startupLog, errorLog, stdout,
                   spawnAttempts, child, returncode, err, exc, errLogFailed, excArg>>

\* an except branch that starts the child again
ExceptLogRetry ==
    /\ pc = "except"
    /\ errorLog' = errorLog \o <<ExceptionChunk(exc)>>
    /\ exc' = "none"
    /\ pc' = "spawn"
    /\ UNCHANGED <<env, unbuffered, SCRIPT_PATH, relabelStatus, startupLog, stdout,
                   spawnAttempts, child, returncode, err, inTry, errLogFailed, excArg, exitStatus>>

\* lines 55-57: the Exception Record, then sys.exit(1)
ExceptLog ==
    /\ pc = "except"
    /\ errorLog' = errorLog \o <<ExceptionChunk(exc)>>
    /\ exc' = "SystemExit"
    /\ excArg' = SysExitCode
    /\ pc' = "raised"
    /\ UNCHANGED <<env, unbuffered, SCRIPT_PATH, relabelStatus, startupLog, stdout,
                   spawnAttempts, child, returncode, err, inTry, errLogFailed, exitStatus>>

\* line 55: open(ERROR_LOG, 'a') raising inside the except branch
ExceptLogFails ==
    /\ pc = "except"
    /\ errLogFailed' = TRUE
    /\ exc' = "OSError"
    /\ pc' = "raised"
    /\ UNCHANGED <<env, unbuffered, SCRIPT_PATH, relabelStatus, startupLog, errorLog, stdout,
                   spawnAttempts, child, returncode, err, inTry, excArg, exitStatus>>

Next ==
    \/ ComputePath
    \/ Relabel
    \/ LogStartup
    \/ Spawn
    \/ SpawnRaises
    \/ ChildExit
    \/ Communicate
    \/ LogTermination
    \/ LogTerminationDecodeError
    \/ Caught
    \/ Uncaught
    \/ ExceptLog

Spec == Init /\ [][Next]_vars

NextEnv ==
    \/ Next
    \/ ComputePathRaises
    \/ LogStartupFails
    \/ LogTerminationOpenFails
    \/ ExceptLogFails

SpecEnv == Init /\ [][NextEnv]_vars

\* ------------------------------------------------------------ observations
\* what this run has appended to each file
NewStartupLines == SubSeq(startupLog, Len(startupLog0) + 1, Len(startupLog))
NewErrorChunks == SubSeq(errorLog, Len(errorLog0) + 1, Len(errorLog))

AppendOnly ==
    /\ Len(startupLog) >= Len(startupLog0)
    /\ SubSeq(startupLog, 1, Len(startupLog0)) = startupLog0
    /\ Len(errorLog) >= Len(errorLog0)
    /\ SubSeq(errorLog, 1, Len(errorLog0)) = errorLog0

CountKind(s, k) == Cardinality({i \in 1..Len(s) : s[i].kind = k})
TerminationRecords == CountKind(NewErrorChunks, TerminatedChunk.kind)
ExceptionRecords == CountKind(NewErrorChunks, ExceptionChunk("").kind)
ErrorOutputs == {NewErrorChunks[i].body : i \in {j \in 1..Len(NewErrorChunks) : NewErrorChunks[j].kind = ErrorOutputChunk(<<>>).kind}}
LoggedReturnCodes == {ParseInt(NewErrorChunks[i].body) : i \in {j \in 1..Len(NewErrorChunks) : NewErrorChunks[j].kind = ReturnCodeChunk(0).kind}}

ChildEnded == child.how \in {"exit", "signal"}
Exited == pc = "exited"

TypeOK ==
    /\ pc \in {"start", "relabel", "startlog", "spawn", "wait", "termlog", "raised", "except", "exited"}
    /\ exitStatus \in {NoStatus} \cup 0..255
    /\ spawnAttempts \in 0..1
    /\ AppendOnly

TwoStartupLines ==
    <<StartLine("Starting RebasedCode Git Sync Runner", NoPath),
      StartLine("Script path: ", [dir |-> launcherDir, base |-> "auto_git_sync.sh"])>>

PathRaised == Exited /\ SCRIPT_PATH = NoPath
SpawnRaised == Exited /\ spawnAttempts = 1 /\ child = NoChild

\* ------------------------------------------------------------------ claims

C2_OneTerminationRecord ==
    /\ TerminationRecords <= 1
    /\ (Exited /\ ChildEnded) =>
        /\ TerminationRecords = 1
        /\ child.how = "exit" => LoggedReturnCodes = {child.n}
        /\ child.how = "signal" => LoggedReturnCodes = {0 - child.n}

C2_Witness ==
    Exited /\ child = [how |-> "exit", n |-> 3] /\ TerminationRecords = 1 /\ errorLog0 # <<>>

\* C3: whenever the launcher has ended, by sys.exit or by an exception nothing
\* caught (a log file that cannot be opened included), its status is not 0.
C3_NonZeroExit ==
    /\ Exited => exitStatus \in 1..255
    /\ ~Exited => exitStatus = NoStatus

C3_Witness ==
    Exited /\ errLogFailed /\ ChildEnded /\ exitStatus = 1

C5_TwoStartupLines ==
    /\ Len(startupLog) >= Len(startupLog0)
    /\ SubSeq(startupLog, 1, Len(startupLog0)) = startupLog0
    /\ pc \in {"start", "relabel", "startlog"} => NewStartupLines = <<>>
    /\ pc \notin {"start", "relabel", "startlog"} => NewStartupLines = TwoStartupLines

C5_Witness ==
    Exited /\ ExceptionRecords = 1 /\ NewStartupLines = TwoStartupLines
           /\ startupLog0 # <<>> /\ cwd # launcherDir

\* C6 as stated: after a Termination Record, a non-empty captured stderr is
\* in the record byte for byte, and an empty one leaves no Error output line.
C6_Original ==
    (Exited /\ TerminationRecords = 1) =>
        /\ err # <<>> => ErrorOutputs = {err}
        /\ err = <<>> => ErrorOutputs = {}

\* C7: a spawn attempt or any new error-log record implies that both startup
\* lines of this run are already in the startup log.
C7_LaunchRecordFirst ==
    (spawnAttempts > 0 \/ NewErrorChunks # <<>>) => NewStartupLines = TwoStartupLines

C7_Witness ==
    TerminationRecords = 1 /\ NewStartupLines = TwoStartupLines /\ pc = "raised"

\* C8: Popen is called at most once, and once the child has ended or an
\* exception is in flight or handled, no step spawns again: the launcher only
\* moves on through logging to its exit, and an ended launcher does nothing.
C8_NoRetry ==
    /\ [](spawnAttempts <= 1)
    /\ [][(ChildEnded \/ pc \in {"termlog", "raised", "except", "exited"}) =>
            /\ spawnAttempts' = spawnAttempts
            /\ child' = child
            /\ pc' \in {"termlog", "raised", "except", "exited"}]_vars

C8_Witness ==
    Exited /\ spawnAttempts = 1 /\ ExceptionRecords = 1

\* C9: after os.system returned a failure status the launcher is at the
\* startup write with the error log untouched and no exception raised, and it
\* goes on to write both startup lines and to call Popen.
C9_RelabelFailureIgnored ==
    relabelStatus # 0 =>
        /\ spawnAttempts = 0 => (pc \in {"startlog", "spawn"} /\ NewErrorChunks = <<>> /\ exc = "none")
        /\ pc # "startlog" => NewStartupLines = TwoStartupLines
        /\ Exited => spawnAttempts = 1

C9_Witness ==
    relabelStatus = 1 /\ Exited /\ spawnAttempts = 1

\* C10 as stated: a run appends at most one record to the error log, so never
\* both a Termination Record and an Exception Record.
C10_Original ==
    TerminationRecords + ExceptionRecords <= 1
====
